---- MODULE Spec2Model ----
(***************************************************************************)
(* Model of the training harness of real2sim_multitask:                    *)
(*   - trainers/train_unet.py        the supervised trainer   ("unet")     *)
(*   - trainers/train_multi_task.py  the multi-task trainer   ("multi")    *)
(*   - test_gan.py                   get_mse of the GAN test script        *)
(*                                                                         *)
(* Real numbers.  A validation SSIM and the SSIM thresholds are held in    *)
(* units of 1/10000 (0.95 is 9500, 0.9999 is 9999, 1 is 10000).  A mean    *)
(* (sum(xs) / len(xs), np.mean) is held exactly, as the pair <<sum, len>>, *)
(* and compared by cross-multiplication, so no rounding is introduced.     *)
(*                                                                         *)
(* The networks are opaque: a training step yields some loss, a validation *)
(* batch yields some MSE and some SSIM, drawn from small sets.             *)
(***************************************************************************)
EXTENDS Integers, Sequences, FiniteSets, TLC

VARIABLES
    trainer,            \* which script runs: "unet" or "multi"
    epochs,             \* trainer.epochs
    val_every,          \* trainer.val_every
    save_model_every,   \* trainer.save_model_every
    batch_size,         \* trainer.batch_size
    datasets_train,     \* per task, the number of training samples
    val_batches,        \* per task, the number of validation batches
    pc,                 \* position of the control thread in start()
    epoch,              \* loop variable of start(); -1 while unbound
    iters,              \* per task, the batches its loader iterator still holds
    sample,             \* the batch the last train_step was given
    training,           \* generator mode: TRUE after .train(), FALSE after .eval()
    running_loss,       \* trainer.running_loss
    val_todo,           \* per task, validation batches not yet visited
    MSEs,               \* val_all's local list
    SSIMs,              \* val_all's local list
    MSE,                \* trainer.MSE
    ssim,               \* trainer.ssim
    last_ssim,          \* trainer._last_ssim (multi-task trainer only)
    step_num,           \* index into step_lr
    lr_ssim_steps,      \* scheduler.step() calls made by the SSIM rule
    lr_epoch_steps,     \* scheduler.step() calls made by the epoch rule
    log,                \* rows handed to saver.log_training_stats
    saves,              \* calls of saver.save_model
    gm,                 \* the get_mse call of test_gan.py
    discriminator,      \* whether the trainer was given a discriminator
    gen_updates,        \* updates made to the generator's parameters
    disc_updates,       \* updates made to the discriminator's parameters
    step_ops,           \* the optimiser updates of the last train_step, in order
    lr_discrim_steps,   \* scheduler_discrim.step() calls
    main,               \* the training script's __main__ block
    gui                 \* the window of GUI/main.py

vars == <<trainer, epochs, val_every, save_model_every, batch_size,
          datasets_train, val_batches, pc, epoch, iters, sample, training,
          running_loss, val_todo, MSEs, SSIMs, MSE, ssim, last_ssim,
          step_num, lr_ssim_steps, lr_epoch_steps, log, saves, gm,
          discriminator, gen_updates, disc_updates, step_ops, lr_discrim_steps,
          main, gui>>

params == <<trainer, epochs, val_every, save_model_every, batch_size,
            datasets_train, val_batches, discriminator>>

\* what a training run leaves alone: the other programs
aside == <<gm, main, gui>>

\* the parameter updates of the networks
updates == <<gen_updates, disc_updates, step_ops>>

----------------------------------------------------------------------------
(* Bounds of the model *)

MaxEpochs == 3          \* short runs train for 0..MaxEpochs epochs
MaxValEvery == 2        \* val_every and save_model_every range over 1..MaxValEvery
LongEpochs == 103       \* the epoch budget of the long runs (past both 50 and 100)
LongValEvery == 51      \* val_every and save_model_every of the long runs
MaxTasks == 2           \* tasks of the batching runs
MaxSamples == 2         \* samples per task of the batching runs
MaxPixels == 2          \* pixels per image in the get_mse runs

LossVals == {1, 2}                      \* losses a training step may yield
MseVals  == {0, 5}                      \* MSEs a validation batch may yield
SsimVals == {0, 9600, 9995, 10000}      \* SSIMs a validation batch may yield
PixelVals == {0, 1, 2, 255}             \* 8-bit pixel values

----------------------------------------------------------------------------
(* Arithmetic on exact means *)

RECURSIVE Sum(_)
Sum(s) == IF s = <<>> THEN 0 ELSE Head(s) + Sum(Tail(s))

Mean(s) == <<Sum(s), Len(s)>>

\* a < b for two means
Less(a, b) == a[1] * b[2] < b[1] * a[2]

\* a > k / 10000 for a mean a held in units of 1/10000
Above(a, k) == a[1] > k * a[2]

Min(a, b) == IF a < b THEN a ELSE b
Max(a, b) == IF a > b THEN a ELSE b

----------------------------------------------------------------------------
(* Data loading: the torch DataLoaders built by get_data_loader(s) *)

Unset == <<0, 0>>       \* an attribute not assigned yet

NumTasks == Len(datasets_train)

\* batch size of the training loader of every task
scaled_batch_size ==
    IF trainer = "multi" THEN Max(1, batch_size \div NumTasks) ELSE batch_size

\* the orders in which a shuffling loader may visit n samples
Perms(n) == {f \in [1..n -> 1..n] : \A i, j \in 1..n : i # j => f[i] # f[j]}

\* the default collate: a batch is a mapping with the keys "real" and "sim",
\* sample <<t, i>> contributing its real image and its simulated image
Collate(t, idx) ==
    [real |-> [j \in 1..Len(idx) |-> <<"real", t, idx[j]>>],
     sim  |-> [j \in 1..Len(idx) |-> <<"sim", t, idx[j]>>]]

\* the batches one pass over the loader of task t yields (drop_last is off)
LoaderBatches(t, perm, bs) ==
    LET n  == Len(perm)
        nb == (n + bs - 1) \div bs
    IN  [k \in 1..nb |->
            Collate(t, [j \in 1..Min(bs, n - (k - 1) * bs) |-> perm[(k - 1) * bs + j]])]

\* one fresh iterator per training loader, each with its own shuffle
FreshIters ==
    {[t \in 1..NumTasks |-> LoaderBatches(t, p[t], scaled_batch_size)] :
        p \in {q \in [1..NumTasks -> UNION {Perms(datasets_train[t]) : t \in 1..NumTasks}] :
                  \A t \in 1..NumTasks : q[t] \in Perms(datasets_train[t])}}

\* zip(*loaders) has nothing more to give once any iterator is exhausted
ZipExhausted == \E t \in 1..NumTasks : iters[t] = <<>>

RECURSIVE cat_from(_, _, _)
cat_from(s, samples, i) ==
    IF i > Len(samples) THEN s
    ELSE cat_from([key \in DOMAIN s |-> s[key] \o samples[i][key]], samples, i + 1)

\* the loop started at the first batch instead of the second
concat_samples_from_first(samples) == cat_from(samples[1], samples, 1)

concat_samples(samples) == cat_from(samples[1], samples, 2)

----------------------------------------------------------------------------
(* Learning-rate staging and checkpoint policy *)

\* the last threshold written as 0.9999 for 1
step_lr_last_below_one == <<9500, 9800, 9900, 9990, 9999>>

step_lr == <<9500, 9800, 9900, 9990, 10000>>

\* the last epoch threshold written as 100 for the epoch budget
step_epochs_no_budget(e) == <<50, 100, 100>>

step_epochs(e) == <<50, 100, e>>

SSIM_EXIT == 9999

\* >= written for >
ssim_rule_or_equal(s, n) == ~Less(s, <<step_lr[n + 1], 1>>)

\* "if self.ssim > self.step_lr[self.step_num]"
ssim_rule(s, n) == Above(s, step_lr[n + 1])

\* >= written for >
epoch_rule_or_equal(ep, n, e) == ep >= step_epochs(e)[Min(Len(step_epochs(e)) - 1, n) + 1]

\* "if self.epoch > self.step_epochs[min(len(self.step_epochs)-1, self.step_num)]"
\* the epoch rule firing once, on the first epoch past the threshold
epoch_rule_once(ep, n, e) == ep = step_epochs(e)[Min(Len(step_epochs(e)) - 1, n) + 1] + 1

epoch_rule(ep, n, e) == ep > step_epochs(e)[Min(Len(step_epochs(e)) - 1, n) + 1]

\* not-worse instead of strictly better
save_best_not_worse(last, cur) == ~Less(cur, last)

\* compared with every validation so far, not only the preceding one
save_best_running_max(last, cur) ==
    Less(last, cur) /\ \A i \in DOMAIN log : ~Less(cur, log[i].ssim)

\* "if self._last_ssim < self.ssim"
save_best(last, cur) == Less(last, cur)

\* the loop without its break
early_exit_never(s) == FALSE

\* "if self.ssim > 0.9999: break"
early_exit(s) == Above(s, SSIM_EXIT)

\* the epoch number val_all is given: epoch (supervised), self.epoch+1 (multi-task)
val_epoch_arg(ep) == IF trainer = "multi" THEN ep + 1 ELSE ep

----------------------------------------------------------------------------
(* Initial states: the trainer object just constructed, start() not yet called *)

FreshRun ==
    /\ epoch = -1
    /\ iters = [t \in 1..NumTasks |-> <<>>]
    /\ sample = [real |-> <<>>, sim |-> <<>>]
    /\ training = TRUE
    /\ running_loss = <<>>
    /\ val_todo = [t \in 1..NumTasks |-> 0]
    /\ MSEs = <<>>
    /\ SSIMs = <<>>
    /\ MSE = Unset
    /\ ssim = Unset
    /\ last_ssim = Unset
    /\ step_num = 0
    /\ lr_ssim_steps = 0
    /\ lr_epoch_steps = 0
    /\ log = <<>>
    /\ saves = <<>>
    /\ gen_updates = 0
    /\ disc_updates = 0
    /\ step_ops = <<>>
    /\ lr_discrim_steps = 0

Fresh == pc = "init" /\ FreshRun

NoGetMse == [pc |-> "idle", wraps |-> FALSE, generated |-> <<>>, image_sim |-> <<>>, MSE |-> Unset]

\* the policies applied to the parameters of each network: none yet
NoPolicy == [generator |-> {}, discriminator |-> {}]

\* the training script not modelled: the trainer is taken as constructed
NoMain == [pc |-> "idle", GAN |-> FALSE, pretrained_model |-> FALSE, init |-> NoPolicy]

\* the window not opened
NoGui == [pc |-> "idle"]

\* the trainer has a discriminator only in the multi-task script, with --GAN
WithOrWithoutDiscriminator ==
    discriminator \in IF trainer = "multi" THEN BOOLEAN ELSE {FALSE}

\* the shape of the data: one task for the supervised trainer, several for the
\* multi-task trainer
SmallData ==
    \/ /\ trainer = "unet"
       /\ datasets_train = <<1>>
       /\ batch_size = 1
       /\ val_batches = <<1>>
    \/ /\ trainer = "multi"
       /\ datasets_train = <<1, 1>>
       /\ batch_size = 2
       /\ val_batches = <<1, 0>>

\* short runs of both trainers
Init ==
    /\ trainer \in {"unet", "multi"}
    /\ \/ /\ epochs \in 0..MaxEpochs
          /\ val_every \in 1..MaxValEvery
          /\ save_model_every \in IF trainer = "unet" THEN 1..MaxValEvery ELSE {1}
          /\ SmallData
       \/ \* more than one step per epoch, more than one batch per validation
          /\ epochs = 2
          /\ val_every = 1
          /\ save_model_every = 1
          /\ datasets_train = IF trainer = "unet" THEN <<2>> ELSE <<2, 2>>
          /\ batch_size = IF trainer = "unet" THEN 1 ELSE 2
          /\ val_batches = IF trainer = "unet" THEN <<2>> ELSE <<1, 1>>
       \/ \* an empty validation set
          /\ epochs = 1
          /\ val_every = 1
          /\ save_model_every = 1
          /\ datasets_train = IF trainer = "unet" THEN <<1>> ELSE <<1, 1>>
          /\ batch_size = 1
          /\ val_batches = IF trainer = "unet" THEN <<0>> ELSE <<0, 0>>
    /\ WithOrWithoutDiscriminator
    /\ Fresh
    /\ gm = NoGetMse
    /\ main = NoMain
    /\ gui = NoGui

----------------------------------------------------------------------------
(* start(): the operations of a training run *)

\* start() up to the epoch loop: setup() and the saver
Start ==
    /\ pc = "init"
    /\ pc' = "epoch_head"
    /\ training' = TRUE
    /\ running_loss' = <<0>>
    /\ ssim' = IF trainer = "multi" THEN <<0, 1>> ELSE ssim
    /\ step_num' = 0
    /\ UNCHANGED <<params, epoch, iters, sample, val_todo, MSEs, SSIMs, MSE,
                   last_ssim, lr_ssim_steps, lr_epoch_steps, log, saves, aside,
                   updates, lr_discrim_steps>>

\* "for epoch in range(self.epochs)": the next epoch, or the end of the loop
NextEpoch ==
    /\ pc = "epoch_head"
    /\ IF epoch + 1 < epochs
       THEN /\ epoch' = epoch + 1
            /\ running_loss' = <<>>
            /\ iters' \in FreshIters
            /\ pc' = "train"
       ELSE /\ pc' = "finish"
            /\ UNCHANGED <<epoch, running_loss, iters>>
    /\ UNCHANGED <<params, sample, training, val_todo, MSEs, SSIMs, MSE, ssim,
                   last_ssim, step_num, lr_ssim_steps, lr_epoch_steps, log, saves, aside,
                   updates, lr_discrim_steps>>

\* optimiser_discrim built over self.model.parameters()
discrim_optimiser_over_generator == {"generator"}

\* the parameters optimiser_discrim was built over
discrim_optimiser_params == {"discriminator"}

\* the optimiser updates of train_step on a batch, in order: the generator's on
\* its loss, then, with a discriminator, the discriminator's on the real pair
\* (im_sim, im_real) and the fake pair (pred_sim.detach(), im_real); pred_sim is
\* the generator's output on im_real, computed before the generator's update
train_step(batch) ==
    LET pred_sim == [by |-> gen_updates, of |-> batch.real]
        g == [opt |-> "optimiser", changes |-> {"generator"},
              pred |-> pred_sim, real |-> batch.real, sim |-> batch.sim]
        d == [opt |-> "optimiser_discrim", changes |-> discrim_optimiser_params,
              pred |-> pred_sim, real |-> batch.real, sim |-> batch.sim]
    IN  IF discriminator THEN <<g, d>> ELSE <<g>>

\* the updates among ops that change the parameters of net
UpdatesOf(ops, net) == Cardinality({k \in DOMAIN ops : net \in ops[k].changes})

\* one turn of the step loop: a batch from every loader, then train_step
TrainStep ==
    /\ pc = "train"
    /\ ~ZipExhausted
    /\ LET samples == [t \in 1..NumTasks |-> Head(iters[t])]
       IN  sample' = IF trainer = "multi" THEN concat_samples(samples) ELSE samples[1]
    /\ iters' = [t \in 1..NumTasks |-> Tail(iters[t])]
    /\ \E loss \in LossVals : running_loss' = Append(running_loss, loss)
    /\ step_ops' = train_step(sample')
    /\ gen_updates' = gen_updates + UpdatesOf(step_ops', "generator")
    /\ disc_updates' = disc_updates + UpdatesOf(step_ops', "discriminator")
    /\ UNCHANGED <<params, pc, epoch, training, val_todo, MSEs, SSIMs, MSE, ssim,
                   last_ssim, step_num, lr_ssim_steps, lr_epoch_steps, log, saves, aside,
                   lr_discrim_steps>>

\* val_all up to its batch loop
ValBegin ==
    /\ pc = "train"
    /\ ZipExhausted
    /\ epoch % val_every = 0
    /\ last_ssim' = IF trainer = "multi" THEN ssim ELSE last_ssim
    /\ training' = FALSE
    /\ MSEs' = <<>>
    /\ SSIMs' = <<>>
    /\ val_todo' = val_batches
    /\ pc' = "val"
    /\ UNCHANGED <<params, epoch, iters, sample, running_loss, MSE, ssim,
                   step_num, lr_ssim_steps, lr_epoch_steps, log, saves, aside,
                   updates, lr_discrim_steps>>

\* one validation batch: forward pass, MSE and SSIM
ValStep ==
    /\ pc = "val"
    /\ \E t \in 1..NumTasks :
          /\ val_todo[t] > 0
          /\ \A u \in 1..(t - 1) : val_todo[u] = 0
          /\ val_todo' = [val_todo EXCEPT ![t] = @ - 1]
    /\ \E m \in MseVals : MSEs' = Append(MSEs, m)
    /\ \E s \in SsimVals : SSIMs' = Append(SSIMs, s)
    /\ UNCHANGED <<params, pc, epoch, iters, sample, training, running_loss, MSE,
                   ssim, last_ssim, step_num, lr_ssim_steps, lr_epoch_steps, log,
                   saves, aside,
                   updates, lr_discrim_steps>>

\* val_all returning without model.train()
mode_left_in_eval == FALSE

\* the generator mode val_all leaves behind
mode_after_val == TRUE

\* the row built before self.ssim is updated
stats_row_stale_ssim(ep, losses, mse, s) ==
    [epoch |-> ep, loss |-> Mean(losses), mse |-> mse, ssim |-> ssim]

\* the row val_all logs
stats_row(ep, losses, mse, s) ==
    [epoch |-> ep, loss |-> Mean(losses), mse |-> mse, ssim |-> s]

\* val_all after its batch loop: back to training mode, the means, the log row;
\* the means of no batch at all are a division by zero
ValEnd ==
    /\ pc = "val"
    /\ \A t \in 1..NumTasks : val_todo[t] = 0
    /\ training' = mode_after_val
    /\ IF MSEs = <<>>
       THEN /\ pc' = "crashed"
            /\ UNCHANGED <<MSE, ssim, log>>
       ELSE /\ MSE' = Mean(MSEs)
            /\ ssim' = Mean(SSIMs)
            /\ log' = Append(log, stats_row(val_epoch_arg(epoch), running_loss, MSE', ssim'))
            /\ pc' = "validated"
    /\ UNCHANGED <<params, epoch, iters, sample, running_loss, val_todo, MSEs,
                   SSIMs, last_ssim, step_num, lr_ssim_steps, lr_epoch_steps,
                   saves, aside,
                   updates, lr_discrim_steps>>

\* a call of saver.save_model
save_call(site, name) ==
    [at |-> site, name |-> name, model |-> "generator", epoch |-> epoch, ssim |-> ssim]

\* the legacy periodic save kept in maybe_save_model
epoch_saves_periodic(validated) ==
    (IF validated /\ trainer = "multi" /\ save_best(last_ssim, ssim)
     THEN <<save_call("best", "best_generator")>>
     ELSE <<>>)
    \o (IF epoch % save_model_every = 0
        THEN <<save_call("epoch", epoch + 1)>>
        ELSE <<>>)

\* the checkpoints written at the end of an epoch
epoch_saves(validated) ==
    IF trainer = "multi"
    THEN IF validated /\ save_best(last_ssim, ssim)
         THEN <<save_call("best", "best_generator")>>
         ELSE <<>>
    ELSE IF epoch % save_model_every = 0
         THEN <<save_call("epoch", epoch + 1)>>
         ELSE <<>>

\* scheduler_discrim stepped wherever the generator's scheduler is
discrim_scheduler_steps_with_generator(ssim_fired, epoch_fired) ==
    (IF ssim_fired THEN 1 ELSE 0) + (IF epoch_fired THEN 1 ELSE 0)

\* the calls of scheduler_discrim.step() in check_to_lower_learning_rate, given
\* which of its two rules fired: there is none
discrim_scheduler_steps(ssim_fired, epoch_fired) == 0

\* the rest of the loop body: checkpoints, learning-rate staging, early exit
EpochEnd ==
    /\ \/ pc = "validated"
       \/ pc = "train" /\ ZipExhausted /\ epoch % val_every # 0
    /\ saves' = saves \o epoch_saves(pc = "validated")
    /\ LET fired == ssim_rule(ssim, step_num)
           n     == IF fired THEN step_num + 1 ELSE step_num
       IN  /\ step_num' = n
           /\ lr_ssim_steps' = IF fired THEN lr_ssim_steps + 1 ELSE lr_ssim_steps
           /\ lr_epoch_steps' = IF epoch_rule(epoch, n, epochs)
                                THEN lr_epoch_steps + 1 ELSE lr_epoch_steps
           /\ lr_discrim_steps' =
                 lr_discrim_steps
                 + discrim_scheduler_steps(fired, epoch_rule(epoch, n, epochs))
    /\ pc' = IF early_exit(ssim) THEN "finish" ELSE "epoch_head"
    /\ UNCHANGED <<params, epoch, iters, sample, training, running_loss, val_todo,
                   MSEs, SSIMs, MSE, ssim, last_ssim, log, aside,
                   updates>>

\* after the loop: the supervised trainer's final save names epoch+1, and epoch
\* is unbound when the loop body never ran
Finish ==
    /\ pc = "finish"
    /\ IF trainer = "multi"
       THEN pc' = "done" /\ UNCHANGED saves
       ELSE IF epoch = -1
            THEN pc' = "crashed" /\ UNCHANGED saves
            ELSE pc' = "done" /\ saves' = Append(saves, save_call("final", epoch + 1))
    /\ UNCHANGED <<params, epoch, iters, sample, training, running_loss, val_todo,
                   MSEs, SSIMs, MSE, ssim, last_ssim, step_num, lr_ssim_steps,
                   lr_epoch_steps, log, aside,
                   updates, lr_discrim_steps>>

Next ==
    \/ Start
    \/ NextEpoch
    \/ TrainStep
    \/ ValBegin
    \/ ValStep
    \/ ValEnd
    \/ EpochEnd
    \/ Finish

Spec == Init /\ [][Next]_vars

\* the single control thread runs on until start() returns or raises
FairSpec == Init /\ [][Next]_vars /\ WF_vars(Next)

----------------------------------------------------------------------------
(* Long runs: an epoch budget past both epoch thresholds, 50 and 100 *)

InitLong ==
    /\ trainer \in {"unet", "multi"}
    /\ epochs = LongEpochs
    /\ val_every = LongValEvery
    /\ save_model_every = LongValEvery
    /\ SmallData
    /\ WithOrWithoutDiscriminator
    /\ Fresh
    /\ gm = NoGetMse
    /\ main = NoMain
    /\ gui = NoGui

SpecLong == InitLong /\ [][Next]_vars

----------------------------------------------------------------------------
(* Batching runs: one epoch of the multi-task trainer over varied task data *)

BatchSizes == {1, 2, 4}

InitBatch ==
    /\ trainer = "multi"
    /\ epochs = 1
    /\ val_every = 1
    /\ save_model_every = 1
    /\ batch_size \in BatchSizes
    /\ \E nt \in 1..MaxTasks :
          /\ datasets_train \in [1..nt -> 1..MaxSamples]
          /\ val_batches = [t \in 1..nt |-> IF t = 1 THEN 1 ELSE 0]
    /\ WithOrWithoutDiscriminator
    /\ Fresh
    /\ gm = NoGetMse
    /\ main = NoMain
    /\ gui = NoGui

SpecBatch == InitBatch /\ [][Next]_vars

----------------------------------------------------------------------------
(* test_gan.py: get_mse *)

\* the images of n pixels
Images(n) == [1..n -> PixelVals]

\* numpy's a - b on one pixel: exact, or modulo 2^8 when both arrays are uint8
pixel_diff(a, b, wraps) == IF wraps THEN (a - b) % 256 ELSE a - b

\* "MSE = (generated_sim_image - image_sim).mean()"
get_mse(generated, image_sim, wraps) ==
    Mean([i \in 1..Len(generated) |-> pixel_diff(generated[i], image_sim[i], wraps)])

\* get_mse is entered with the generator's output already converted by to_numpy,
\* whose element type the source does not fix
InitMse ==
    /\ trainer = "unet"
    /\ epochs = 0
    /\ val_every = 1
    /\ save_model_every = 1
    /\ batch_size = 1
    /\ datasets_train = <<1>>
    /\ val_batches = <<1>>
    /\ discriminator = FALSE
    /\ Fresh
    /\ main = NoMain
    /\ gui = NoGui
    /\ \E n \in 1..MaxPixels :
          gm \in [pc : {"call"}, wraps : BOOLEAN, generated : Images(n),
                  image_sim : Images(n), MSE : {Unset}]

GetMse ==
    /\ gm.pc = "call"
    /\ gm' = [gm EXCEPT !.pc = "returned",
                        !.MSE = get_mse(gm.generated, gm.image_sim, gm.wraps)]
    /\ UNCHANGED <<params, pc, epoch, iters, sample, training, running_loss,
                   val_todo, MSEs, SSIMs, MSE, ssim, last_ssim, step_num,
                   lr_ssim_steps, lr_epoch_steps, log, saves, updates,
                   lr_discrim_steps, main, gui>>

NextMse == GetMse

SpecMse == InitMse /\ [][NextMse]_vars

----------------------------------------------------------------------------
(* The training scripts: __main__ up to the construction of the trainer *)

\* the policies __main__ applies to the parameters of each network: with no
\* pretrained model weights_init_normal on the generator and, in the multi-task
\* script under --GAN, on the discriminator; otherwise weights_init_pretrained
\* on the generator
init_policies(script, GAN, pretrained_model) ==
    IF ~pretrained_model
    THEN [generator |-> {"normal"},
          discriminator |-> IF script = "multi" /\ GAN THEN {"normal"} ELSE {}]
    ELSE [generator |-> {"pretrained"}, discriminator |-> {}]

\* a script is started with its arguments parsed; only train_multi_task.py has --GAN
InitSetup ==
    /\ trainer \in {"unet", "multi"}
    /\ epochs = 1
    /\ val_every = 1
    /\ save_model_every = 1
    /\ SmallData
    /\ discriminator = FALSE
    /\ pc = "main"
    /\ FreshRun
    /\ gm = NoGetMse
    /\ gui = NoGui
    /\ main \in [pc : {"args"},
                 GAN : IF trainer = "multi" THEN BOOLEAN ELSE {FALSE},
                 pretrained_model : BOOLEAN,
                 init : {NoPolicy}]

\* the networks are made and initialised, and the trainer is constructed on them
Main ==
    /\ pc = "main"
    /\ main.pc = "args"
    /\ main' = [main EXCEPT !.pc = "built",
                            !.init = init_policies(trainer, main.GAN, main.pretrained_model)]
    /\ discriminator' = main.GAN
    /\ pc' = "init"
    /\ UNCHANGED <<trainer, epochs, val_every, save_model_every, batch_size,
                   datasets_train, val_batches, epoch, iters, sample, training,
                   running_loss, val_todo, MSEs, SSIMs, MSE, ssim, last_ssim,
                   step_num, lr_ssim_steps, lr_epoch_steps, log, saves, gm, gui,
                   updates, lr_discrim_steps>>

NextSetup ==
    \/ Main
    \/ Next

SpecSetup == InitSetup /\ [][NextSetup]_vars

----------------------------------------------------------------------------
(* GUI/main.py: the two file-selection callbacks *)

\* self.dummy_im, the image both labels show when the window is built
Placeholder == "dummy_im"

\* the files a user may pick
Paths == {"a.png", "b.png", "c.jpg"}

\* the failures that may be raised inside the try block
Failures == {"RuntimeError", "KeyboardInterrupt"}

\* QFileDialog.getOpenFileName: a path, '' when the dialog is cancelled, or a failure
DialogOutcomes ==
    [raised : {FALSE}, value : Paths \cup {""}] \cup [raised : {TRUE}, value : Failures]

\* image1_file and image2_file are not attributes until their callback has run
NoAttribute == "<no attribute>"

\* the window after make_app.__init__
InitGui ==
    /\ trainer = "unet"
    /\ epochs = 0
    /\ val_every = 1
    /\ save_model_every = 1
    /\ batch_size = 1
    /\ datasets_train = <<1>>
    /\ val_batches = <<1>>
    /\ discriminator = FALSE
    /\ Fresh
    /\ gm = NoGetMse
    /\ main = NoMain
    /\ gui = [pc |-> "shown",
              im_Qlabels |-> [im1 |-> Placeholder, im2 |-> Placeholder],
              image1_file |-> NoAttribute,
              image2_file |-> NoAttribute,
              status |-> "",
              button |-> "",
              dialog |-> [raised |-> FALSE, value |-> ""]]

\* "except Exception:" written for the bare "except:"
caught_exceptions_only(failure) == failure # "KeyboardInterrupt"

\* the bare "except:" catches every failure
caught(failure) == TRUE

\* the chosen file loaded into the label of its slot
displayed_loaded(labels, label, file) ==
    IF file # "" THEN [labels EXCEPT ![label] = file] ELSE labels

\* what the labels show after a file was chosen: for a non-empty path
\* 'now impliment load image' is printed, and nothing else is done
displayed(labels, label, file) == labels

\* the window after a callback whose dialog came out as out: attr is the
\* attribute the callback assigns the path to, label the image label of its slot
after_dialog(name, attr, label, out) ==
    IF out.raised
    THEN IF caught(out.value)
         THEN [gui EXCEPT !.status = "Cancelled Load", !.button = name, !.dialog = out]
         ELSE [gui EXCEPT !.pc = "aborted", !.button = name, !.dialog = out]
    ELSE [gui EXCEPT ![attr] = out.value,
                     !.im_Qlabels = displayed(gui.im_Qlabels, label, out.value),
                     !.button = name, !.dialog = out]

choose_image1 ==
    /\ gui.pc = "shown"
    /\ \E out \in DialogOutcomes :
          gui' = after_dialog("choose_image1", "image1_file", "im1", out)
    /\ UNCHANGED <<params, pc, epoch, iters, sample, training, running_loss,
                   val_todo, MSEs, SSIMs, MSE, ssim, last_ssim, step_num,
                   lr_ssim_steps, lr_epoch_steps, log, saves, updates,
                   lr_discrim_steps, gm, main>>

choose_image2 ==
    /\ gui.pc = "shown"
    /\ \E out \in DialogOutcomes :
          gui' = after_dialog("choose_image2", "image2_file", "im2", out)
    /\ UNCHANGED <<params, pc, epoch, iters, sample, training, running_loss,
                   val_todo, MSEs, SSIMs, MSE, ssim, last_ssim, step_num,
                   lr_ssim_steps, lr_epoch_steps, log, saves, updates,
                   lr_discrim_steps, gm, main>>

NextGui ==
    \/ choose_image1
    \/ choose_image2

SpecGui == InitGui /\ [][NextGui]_vars

----------------------------------------------------------------------------
(* Properties of the best-checkpoint policy (multi-task trainer) *)

\* the number of logged validations whose checkpoint decision has been taken
Decided == IF pc = "validated" THEN Len(log) - 1 ELSE Len(log)

\* the SSIM recorded by the validation before the i-th one, 0 before the first
PrecedingSsim(i) == IF i = 1 THEN <<0, 1>> ELSE log[i - 1].ssim

\* the validations that improved on the validation before them
Improved == {i \in 1..Decided : Less(PrecedingSsim(i), log[i].ssim)}

\* C1: in the multi-task trainer 'best_generator' is written after a validation
\* if and only if that validation's SSIM is strictly greater than the SSIM of the
\* validation before it (0 before the first), once per such validation, and
\* never on an epoch without a validation.
C1_BestSavedIffImproved ==
    trainer = "multi" =>
        /\ Len(saves) = Cardinality(Improved)
        /\ \A k \in DOMAIN saves : saves[k].name = "best_generator"
        /\ {saves[k].epoch + 1 : k \in DOMAIN saves} = {log[i].epoch : i \in Improved}
        /\ \A k \in DOMAIN saves : saves[k].epoch % val_every = 0

\* a finished run with a validation that wrote the checkpoint and one that did not
C1_Witness ==
    /\ trainer = "multi"
    /\ pc = "done"
    /\ Len(saves) >= 1
    /\ Len(log) > Len(saves)
    /\ ~Less(<<0, 1>>, log[1].ssim)

\* C2: in the multi-task trainer a validation whose SSIM is greater than the
\* preceding validation's but lower than an earlier validation's still writes
\* 'best_generator', at that lower SSIM.
C2_ComparedWithPrecedingOnly ==
    trainer = "multi" =>
        \A i \in 1..Decided :
            (/\ Less(PrecedingSsim(i), log[i].ssim)
             /\ \E j \in 1..(i - 1) : Less(log[i].ssim, log[j].ssim))
            => \E k \in DOMAIN saves :
                  /\ saves[k].name = "best_generator"
                  /\ saves[k].epoch + 1 = log[i].epoch
                  /\ saves[k].ssim = log[i].ssim

\* the retained best checkpoint was saved at an SSIM below the run's maximum
C2_Witness ==
    /\ trainer = "multi"
    /\ pc = "done"
    /\ saves # <<>>
    /\ \E j \in DOMAIN log : Less(saves[Len(saves)].ssim, log[j].ssim)

----------------------------------------------------------------------------
(* Generator mode *)

\* C3: in both trainers the validation batches are processed in evaluation mode,
\* the generator is back in training mode once val_all has returned, and every
\* training step runs in training mode.
C3_EvalOnlyWhileValidating ==
    /\ pc = "val" => ~training
    /\ pc \in {"train", "validated", "epoch_head", "finish", "done"} => training

\* a training step of an epoch that follows a validation
C3_Witness ==
    /\ pc = "train"
    /\ running_loss # <<>>
    /\ log # <<>>
    /\ training

----------------------------------------------------------------------------
(* Learning-rate staging *)

\* a step that ends an epoch: the loop body's tail has run
EndOfEpoch == pc \in {"train", "validated"} /\ pc' \in {"epoch_head", "finish"}

\* C4: in both trainers, at the end of every epoch, the SSIM rule applies exactly
\* one scheduler step and advances the decay index by one if the most recent
\* validation SSIM is strictly greater than the threshold at the index in
\* [0.95, 0.98, 0.99, 0.999, 1]; otherwise it applies no step and leaves the index.
C4_SsimRule ==
    [][EndOfEpoch =>
        IF ssim[1] > <<9500, 9800, 9900, 9990, 10000>>[step_num + 1] * ssim[2]
        THEN lr_ssim_steps' = lr_ssim_steps + 1 /\ step_num' = step_num + 1
        ELSE lr_ssim_steps' = lr_ssim_steps /\ step_num' = step_num]_vars

\* the index has walked through every threshold, one epoch at a time
C4_Witness ==
    /\ step_num = 4
    /\ lr_ssim_steps = 4
    /\ epoch = 3
    /\ pc = "epoch_head"

\* C5: in both trainers, at the end of every epoch, whether or not the SSIM rule
\* fired, the epoch rule applies one scheduler step if the epoch number exceeds
\* the entry of [50, 100, epochs] selected by the decay index (as the SSIM rule
\* left it, clamped to the last entry), and no step otherwise.
C5_EpochRule ==
    [][EndOfEpoch =>
        LET i == IF step_num' < 2 THEN step_num' ELSE 2
        IN  IF epoch > <<50, 100, epochs>>[i + 1]
            THEN lr_epoch_steps' = lr_epoch_steps + 1
            ELSE lr_epoch_steps' = lr_epoch_steps]_vars

\* the epoch rule has fired in an epoch in which the SSIM rule fired too, after
\* having fired under the first threshold
C5_Witness ==
    /\ pc = "finish"
    /\ epoch = 102
    /\ step_num = 1
    /\ lr_ssim_steps = 1
    /\ lr_epoch_steps > 2
    /\ Len(log) = 3
    /\ ~Above(log[2].ssim, 9500)

----------------------------------------------------------------------------
(* Termination *)

\* start() has returned or raised
Ended == pc \in {"done", "crashed"}

\* C6: every run terminates; epochs are started one after the other, fewer than
\* `epochs` of them before the last, none after an epoch at whose end the
\* recorded SSIM is above 0.9999; a run that never saw such an SSIM runs
\* exactly `epochs` epochs.
C6_Terminates ==
    /\ <>Ended
    /\ [][epoch' # epoch =>
            /\ epoch' = epoch + 1
            /\ epoch' < epochs
            /\ ~(ssim[1] > 9999 * ssim[2])]_vars
    /\ [](pc = "done" => (epoch + 1 = epochs \/ ssim[1] > 9999 * ssim[2]))

\* a run ended by the SSIM exit with epochs of its budget left
C6_Witness ==
    /\ pc = "done"
    /\ epoch + 1 < epochs
    /\ Above(ssim, 9999)

----------------------------------------------------------------------------
(* Checkpoints of the supervised trainer *)

\* the epoch loop has ended, by exhausting the budget or by the SSIM exit, and
\* the statement after it has been reached and executed
AfterLoop == pc = "done" \/ (pc = "crashed" /\ epoch = -1)

SavesAt(site) == {k \in DOMAIN saves : saves[k].at = site}

\* C7 (as claimed): in the supervised trainer a checkpoint is saved at the end of
\* every epoch e with e % save_model_every = 0, and exactly one more, final save
\* is made after the loop, for every epoch budget, 0 included.
C7_PeriodicAndFinalSave ==
    (trainer = "unet" /\ AfterLoop) =>
        /\ {saves[k].epoch : k \in SavesAt("epoch")} =
              {e \in 0..epoch : e % save_model_every = 0}
        /\ Cardinality(SavesAt("epoch")) =
              Cardinality({e \in 0..epoch : e % save_model_every = 0})
        /\ Cardinality(SavesAt("final")) = 1
        /\ saves # <<>> /\ saves[Len(saves)].at = "final"

----------------------------------------------------------------------------
(* The statistics log *)

\* the batches one pass over the loader of task t yields
BatchesOf(t) == (datasets_train[t] + scaled_batch_size - 1) \div scaled_batch_size

\* the training steps of one epoch
StepsPerEpoch ==
    CHOOSE n \in {BatchesOf(t) : t \in 1..NumTasks} :
        \A t \in 1..NumTasks : n <= BatchesOf(t)

\* the epochs whose validation has completed
ValidatedEpochs ==
    LET last == IF pc \in {"train", "val", "crashed"} THEN epoch - 1 ELSE epoch
    IN  {e \in 0..last : e % val_every = 0}

\* a row is appended: the rows before it are kept, and the new one carries the
\* number val_all was given, the mean of this epoch's losses and the means of
\* this validation's MSEs and SSIMs
RowAppended(number) ==
    /\ Len(log') = Len(log) + 1
    /\ SubSeq(log', 1, Len(log)) = log
    /\ LET row == log'[Len(log')]
       IN  /\ row.epoch = number
           /\ row.loss = <<Sum(running_loss), StepsPerEpoch>>
           /\ row.mse = <<Sum(MSEs), Len(MSEs)>>
           /\ row.ssim = <<Sum(SSIMs), Len(SSIMs)>>
           /\ Len(MSEs) = Sum(val_batches)
           /\ Len(SSIMs) = Sum(val_batches)

\* C8 (as claimed): the log has one row per executed validation epoch e, carrying
\* the epoch index e, in strictly increasing order.
C8_RowsCarryEpochIndex ==
    /\ Len(log) = Cardinality(ValidatedEpochs)
    /\ \A i \in DOMAIN log : log[i].epoch \in ValidatedEpochs
    /\ \A i, j \in DOMAIN log : i < j => log[i].epoch < log[j].epoch

\* C8 (amended): in both trainers the log is append-only with one row per executed
\* validation epoch e; a row carries the number val_all was given (e in the
\* supervised trainer, e + 1 in the multi-task trainer), that epoch's mean
\* training loss, the validation MSE and the validation SSIM; the logged numbers
\* are strictly increasing.
C8_LogAppendOnly ==
    /\ [](/\ Len(log) = Cardinality(ValidatedEpochs)
          /\ {log[i].epoch : i \in DOMAIN log} =
                {IF trainer = "multi" THEN e + 1 ELSE e : e \in ValidatedEpochs}
          /\ \A i, j \in DOMAIN log : i < j => log[i].epoch < log[j].epoch)
    /\ [][log' # log =>
            RowAppended(IF trainer = "multi" THEN epoch + 1 ELSE epoch)]_vars

\* a finished run that validated on some epochs and not on others
C8_Witness ==
    /\ pc = "done"
    /\ Len(log) = 2
    /\ epoch = 2
    /\ val_every = 2
    /\ log[1].ssim # log[2].ssim
    /\ log[1].loss # log[2].loss

----------------------------------------------------------------------------
(* Lockstep batching of the multi-task trainer *)

RECURSIVE JoinAll(_)
JoinAll(seqs) == IF seqs = <<>> THEN <<>> ELSE Head(seqs) \o JoinAll(Tail(seqs))

\* a training step is taken
StepTaken == pc = "train" /\ running_loss' # running_loss

\* C9: in the multi-task trainer every training step takes exactly one batch from
\* each task's loader and trains on one combined batch holding every sample of
\* those batches once, in task order, 'real' and 'sim' still paired by position;
\* an epoch has as many steps as the loader with the fewest batches has batches.
C9_LockstepCombinedBatch ==
    /\ [][StepTaken =>
            /\ \A t \in 1..NumTasks :
                  iters[t] # <<>> /\ iters'[t] = Tail(iters[t])
            /\ sample'.real = JoinAll([t \in 1..NumTasks |-> iters[t][1].real])
            /\ sample'.sim = JoinAll([t \in 1..NumTasks |-> iters[t][1].sim])
            /\ Len(sample'.sim) = Len(sample'.real)
            /\ \A k \in 1..Len(sample'.real) :
                  /\ sample'.real[k][1] = "real"
                  /\ sample'.sim[k][1] = "sim"
                  /\ sample'.real[k][2] = sample'.sim[k][2]
                  /\ sample'.real[k][3] = sample'.sim[k][3]
            /\ \A k, l \in 1..Len(sample'.real) :
                  k < l => /\ sample'.real[k] # sample'.real[l]
                           /\ sample'.real[k][2] <= sample'.real[l][2]]_vars
    /\ [](pc \in {"val", "validated", "finish", "done"} =>
            Len(running_loss) = StepsPerEpoch)

\* a combined batch of two tasks whose batches differ in size
C9_Witness ==
    /\ pc = "train"
    /\ NumTasks = 2
    /\ Len(sample.real) = 3
    /\ sample.real[1][2] = 1
    /\ sample.real[3][2] = 2
    /\ Len(running_loss) = 1

----------------------------------------------------------------------------
(* The MSE test score *)

\* C10 (as claimed): get_mse returns the mean of the squared pixel-wise
\* differences of the predicted and the target image, so it is never negative
\* and is 0 only for identical images.
C10_MeanSquaredError ==
    gm.pc = "returned" =>
        /\ gm.MSE[2] = Len(gm.generated)
        /\ gm.MSE[1] = Sum([i \in 1..Len(gm.generated) |->
                              (gm.generated[i] - gm.image_sim[i]) *
                              (gm.generated[i] - gm.image_sim[i])])
        /\ gm.MSE[1] >= 0
        /\ (gm.MSE[1] = 0 <=> gm.generated = gm.image_sim)

----------------------------------------------------------------------------
(* Properties of the decay index (both trainers) *)

\* C15: with SSIM in [0, 1] the decay index is in 0..4 in every state, never
\* decreases, rises by at most one per epoch and only at the end of an epoch,
\* and the threshold lookups it is used for are never out of range.
C15_IndexInRange ==
    /\ [](/\ step_num \in 0..4
          /\ step_num + 1 \in DOMAIN step_lr
          /\ Min(Len(step_epochs(epochs)) - 1, step_num) + 1 \in DOMAIN step_epochs(epochs))
    /\ [][/\ step_num' \in {step_num, step_num + 1}
          /\ step_num' # step_num => EndOfEpoch]_vars

\* a run has ended at index 4 on an SSIM of 1, looked up against the last threshold
C15_Witness ==
    /\ pc = "done"
    /\ step_num = 4
    /\ Above(ssim, SSIM_EXIT)

\* C16: the epoch rule never changes the decay index (the index moves exactly
\* with the SSIM rule's scheduler steps); while the index is 0 the epoch rule
\* steps the scheduler at the end of every epoch above 50, and while it is 1 at
\* the end of every epoch above 100; an epoch in which both rules fire takes
\* two scheduler steps.
C16_EpochRuleEveryEpoch ==
    [][EndOfEpoch =>
        /\ step_num' - step_num = lr_ssim_steps' - lr_ssim_steps
        /\ step_num' = 0 /\ epoch > 50 => lr_epoch_steps' = lr_epoch_steps + 1
        /\ step_num' = 1 /\ epoch > 100 => lr_epoch_steps' = lr_epoch_steps + 1
        /\ (lr_ssim_steps' # lr_ssim_steps /\ lr_epoch_steps' # lr_epoch_steps) =>
              lr_ssim_steps' + lr_epoch_steps' = lr_ssim_steps + lr_epoch_steps + 2]_vars

\* a run of 103 epochs has stayed at index 0 and taken one epoch step in each of
\* the epochs 51..102
C16_Witness ==
    /\ pc = "done"
    /\ epoch = LongEpochs - 1
    /\ step_num = 0
    /\ lr_ssim_steps = 0
    /\ lr_epoch_steps = LongEpochs - 51

\* C17: once the decay index is 2 or more the epoch rule never fires again.
C17_NoEpochRuleFromIndexTwo ==
    [][(EndOfEpoch /\ step_num' >= 2) => lr_epoch_steps' = lr_epoch_steps]_vars

\* a run has passed both epoch thresholds at index 2 or more without one epoch step
C17_Witness ==
    /\ pc = "done"
    /\ epoch > 100
    /\ step_num >= 2
    /\ lr_epoch_steps = 0

----------------------------------------------------------------------------
(* Properties of the multi-task trainer's discriminator and checkpoints *)

\* C18: in the multi-task trainer with a discriminator the discriminator's
\* scheduler is never stepped, so the discriminator optimiser's learning rate,
\* lr * lr_decay^lr_discrim_steps, is its initial value lr in every state,
\* however many steps the generator's scheduler has taken.
C18_DiscriminatorRateFixed ==
    (trainer = "multi" /\ discriminator) => lr_discrim_steps = 0

\* a run with a discriminator has ended after the generator's scheduler was
\* stepped by both rules
C18_Witness ==
    /\ trainer = "multi"
    /\ discriminator
    /\ pc = "done"
    /\ lr_ssim_steps >= 1
    /\ lr_epoch_steps >= 2
    /\ lr_discrim_steps = 0

\* C19: in the multi-task trainer every checkpoint written is the generator
\* under the name 'best_generator', written by maybe_save_model: none is
\* periodic, final or of the discriminator; a run in which no validation's SSIM
\* exceeded that of the validation before it has ended with no checkpoint.
C19_OnlyBestGenerator ==
    trainer = "multi" =>
        /\ \A k \in DOMAIN saves :
              /\ saves[k].at = "best"
              /\ saves[k].name = "best_generator"
              /\ saves[k].model = "generator"
        /\ (pc \in {"done", "crashed"} /\ Improved = {}) => saves = <<>>

\* a run with a discriminator has ended after two validations, neither better
\* than the one before it, with nothing saved
C19_Witness ==
    /\ trainer = "multi"
    /\ discriminator
    /\ pc = "done"
    /\ Len(log) >= 2
    /\ Improved = {}
    /\ saves = <<>>

\* C12: in the multi-task trainer with a discriminator every training step makes
\* exactly one update of the generator and then exactly one update of the
\* discriminator, the second computed on the step's own batch (its simulated
\* images and the generator's output on its real images, both paired with those
\* real images) and leaving the generator's parameters alone; without a
\* discriminator the discriminator is never updated.
C12_GeneratorThenDiscriminator ==
    /\ []((trainer = "multi" /\ ~discriminator) => disc_updates = 0)
    /\ [][(StepTaken /\ trainer = "multi") =>
            /\ gen_updates' = gen_updates + 1
            /\ step_ops'[1].opt = "optimiser"
            /\ step_ops'[1].changes = {"generator"}
            /\ IF discriminator
               THEN /\ Len(step_ops') = 2
                    /\ disc_updates' = disc_updates + 1
                    /\ step_ops'[2].opt = "optimiser_discrim"
                    /\ "generator" \notin step_ops'[2].changes
                    /\ step_ops'[2].sim = sample'.sim
                    /\ step_ops'[2].real = sample'.real
                    /\ step_ops'[2].pred = [by |-> gen_updates, of |-> sample'.real]
                    /\ step_ops'[2].pred = step_ops'[1].pred
               ELSE /\ Len(step_ops') = 1
                    /\ disc_updates' = disc_updates]_vars

\* two steps with a discriminator, the second on a batch joined from two tasks
C12_Witness ==
    /\ trainer = "multi"
    /\ discriminator
    /\ gen_updates = 2
    /\ disc_updates = 2
    /\ Len(step_ops) = 2
    /\ Len(sample.real) >= 2
    /\ step_ops[2].real = sample.real

----------------------------------------------------------------------------
(* Properties of the training scripts' setup *)

\* the networks whose parameters have been updated by training
Trained ==
    (IF gen_updates > 0 THEN {"generator"} ELSE {})
    \cup (IF disc_updates > 0 THEN {"discriminator"} ELSE {})

\* C11 (as claimed): every network that is trained had exactly one policy applied
\* to its parameters by the script, normal initialisation when no pretrained
\* model was given and the loading of pretrained weights otherwise, for every
\* combination of --GAN and --pretrained_model.
C11_OnePolicyPerTrainedNetwork ==
    main.pc = "built" =>
        \A net \in Trained :
            main.init[net] = IF main.pretrained_model THEN {"pretrained"} ELSE {"normal"}

----------------------------------------------------------------------------
(* Properties of the GUI's file-selection callbacks *)

\* a callback has run and changed the window's state
Clicked(name) == gui' # gui /\ gui'.button = name

\* C13: after any sequence of clicks on the two buttons both labels still show
\* the placeholder image; a click on one button leaves the path of the other
\* slot as it was and, when the dialog returns, records what it returned as the
\* path of its own slot.
C13_PlaceholdersStay ==
    /\ [](gui.im_Qlabels = [im1 |-> Placeholder, im2 |-> Placeholder])
    /\ [][/\ Clicked("choose_image1") =>
                /\ gui'.image2_file = gui.image2_file
                /\ ~gui'.dialog.raised => gui'.image1_file = gui'.dialog.value
          /\ Clicked("choose_image2") =>
                /\ gui'.image1_file = gui.image1_file
                /\ ~gui'.dialog.raised => gui'.image2_file = gui'.dialog.value]_vars

\* a different file has been chosen for each slot, and the placeholders are shown
C13_Witness ==
    /\ gui.pc = "shown"
    /\ gui.image1_file = "a.png"
    /\ gui.image2_file = "b.png"
    /\ gui.im_Qlabels = [im1 |-> Placeholder, im2 |-> Placeholder]

\* C14: a failure raised while a file is chosen never leaves the callback, and
\* the status bar shows 'Cancelled Load' once the callback has returned.
C14_FailureCaught ==
    /\ [](gui.pc # "aborted")
    /\ [][(gui' # gui /\ gui'.dialog.raised) =>
            /\ gui'.pc = "shown"
            /\ gui'.status = "Cancelled Load"]_vars

\* a failure that is not an Exception was raised after a file had been chosen
C14_Witness ==
    /\ gui.pc = "shown"
    /\ gui.dialog.raised
    /\ gui.dialog.value = "KeyboardInterrupt"
    /\ gui.image1_file = "a.png"
    /\ gui.status = "Cancelled Load"

====
